---- MODULE Spec2Model ----
(***************************************************************************)
(* Model of the YelpApp dashboard: the HomePage component (form, fetch,    *)
(* conditional sections) and the ReviewRhythm heatmap it mounts (binning   *)
(* of the day -> hour -> count payload, the module-level d3 colour scale,  *)
(* the 7 x 24 cell grid, the hover state and the tooltip).                 *)
(*                                                                         *)
(* JavaScript strings are sequences of one-character strings, so that      *)
(* parseInt and the template literals that build the Map keys are modelled *)
(* by what they do.  JavaScript null/undefined is the record Null.         *)
(***************************************************************************)
EXTENDS Integers, Sequences, FiniteSets, TLC

VARIABLES
    userId, profileData, isLoading, error,  \* the state of HomePage
    pending,        \* the requests awaiting their response
    hoveredCell,    \* the state of the mounted ReviewRhythm
    scaleDomain,    \* the domain of the module-level colorScale
    domainBefore,   \* the domain colorScale held when the last render began
    view,           \* what the Review Rhythm section shows
    sections,       \* what the Cuisine Diversity and Sentiment Timeline sections show
    crashed,        \* a render has thrown and React has unmounted the page
    latest,         \* history: the most recent submission of the form
    shown           \* history: the submission whose outcome the page holds

vars == <<userId, profileData, isLoading, error, pending,
          hoveredCell, scaleDomain, domainBefore, view, sections, crashed,
          latest, shown>>

Null == [null |-> TRUE]

\* F applied to the value of v: v is evaluated once, before F uses it.
Bind(v, F(_)) == CHOOSE r \in {F(x) : x \in {v}} : TRUE

----------------------------------------------------------------------------
(* Bounds of the model. *)

\* Counts of the generated one-entry payloads range over 1..MaxCount.
MaxCount == 2

----------------------------------------------------------------------------
(* Configuration: ReviewRhythm.js lines 7-12. *)

daysOfWeek == <<"Mon", "Tue", "Wed", "Thu", "Fri", "Sat", "Sun">>
HoursLength == 24
\* hoursOfDay counted from 1: the hours 1..24.
hoursOfDayFromOne == [i \in 1..HoursLength |-> i]
hoursOfDay == [i \in 1..HoursLength |-> i - 1]
CELL_PADDING == 1
CELL_SIZE == 18
Y_AXIS_WIDTH == 40
X_AXIS_HEIGHT == 30

\* The range of the colour scale: '#282828' and '#1DB954' as RGB channels.
C0 == <<40, 40, 40>>
C1 == <<29, 185, 84>>

----------------------------------------------------------------------------
(* JavaScript numbers and strings. *)

NaN == [nan |-> TRUE, val |-> 0]
Num(n) == [nan |-> FALSE, val |-> n]

DigitChars == <<"0", "1", "2", "3", "4", "5", "6", "7", "8", "9">>
HexChars == <<"a", "b", "c", "d", "e", "f">>
WhiteSpace == {" ", "\t", "\n"}

\* The value of character c as a digit of the radix, or -1.
DigitVal(c, radix) ==
    IF \E i \in 1..10 : DigitChars[i] = c
    THEN (CHOOSE i \in 1..10 : DigitChars[i] = c) - 1
    ELSE IF radix = 16 /\ \E i \in 1..6 : HexChars[i] = c
         THEN (CHOOSE i \in 1..6 : HexChars[i] = c) + 9
         ELSE -1

RECURSIVE NatToString(_)
NatToString(n) ==
    IF n < 10 THEN <<DigitChars[n + 1]>>
    ELSE NatToString(n \div 10) \o <<DigitChars[(n % 10) + 1]>>

\* Number::toString, as `${...}` applies it to an integer or NaN.
NumToString(x) ==
    IF x.nan THEN <<"N", "a", "N">>
    ELSE IF x.val < 0 THEN <<"-">> \o NatToString(-x.val)
    ELSE NatToString(x.val)

RECURSIVE SkipWhiteSpace(_)
SkipWhiteSpace(s) ==
    IF s # <<>> /\ Head(s) \in WhiteSpace THEN SkipWhiteSpace(Tail(s)) ELSE s

\* The longest prefix of s made of digits of the radix, read as a number;
\* acc is <<value, digits consumed>>.
RECURSIVE ReadDigits(_, _, _)
ReadDigits(s, radix, acc) ==
    IF s = <<>> \/ DigitVal(Head(s), radix) < 0 THEN acc
    ELSE ReadDigits(Tail(s), radix,
                    <<acc[1] * radix + DigitVal(Head(s), radix), acc[2] + 1>>)

\* parseInt(string) without a radix argument.
ParseInt(str) ==
    LET s1 == SkipWhiteSpace(str)
        neg == s1 # <<>> /\ Head(s1) = "-"
        s2 == IF s1 # <<>> /\ Head(s1) \in {"-", "+"} THEN Tail(s1) ELSE s1
        hex == Len(s2) >= 2 /\ s2[1] = "0" /\ s2[2] \in {"x", "X"}
        s3 == IF hex THEN Tail(Tail(s2)) ELSE s2
        r == ReadDigits(s3, IF hex THEN 16 ELSE 10, <<0, 0>>)
    IN IF r[2] = 0 THEN NaN
       ELSE Num(IF neg THEN -r[1] ELSE r[1])

\* The API day used as the row index without the - 1.
Minus1Forgotten(x) == x
\* x - 1 on a JavaScript number.
Minus1(x) == IF x.nan THEN NaN ELSE Num(x.val - 1)

\* String.prototype.trim.
RECURSIVE TrimEnd(_)
TrimEnd(s) ==
    IF s # <<>> /\ s[Len(s)] \in WhiteSpace
    THEN TrimEnd(SubSeq(s, 1, Len(s) - 1)) ELSE s
Trim(s) == TrimEnd(SkipWhiteSpace(s))

----------------------------------------------------------------------------
(* JavaScript objects: a sequence of <<key, value>> pairs in creation      *)
(* order, with distinct keys.  for-in visits the integer-index keys in     *)
(* ascending order first, then the other keys in creation order.           *)

IsArrayIndex(k) ==
    LET n == ParseInt(k) IN ~n.nan /\ n.val >= 0 /\ NumToString(n) = k

\* e = <<value, position>> put into a sequence sorted by value.
InsertSorted(sorted, e) ==
    Bind(Cardinality({j \in DOMAIN sorted : sorted[j][1] < e[1]}),
         LAMBDA k : SubSeq(sorted, 1, k) \o <<e>> \o SubSeq(sorted, k + 1, Len(sorted)))

\* One pass over the properties: st.idx collects the integer-index keys by
\* ascending value, st.rest the other keys in creation order.
RECURSIVE KeyOrder(_, _)
KeyOrder(obj, st) ==
    IF st.i > Len(obj) THEN st
    ELSE LET k == obj[st.i][1]
         IN Bind(IF IsArrayIndex(k)
                 THEN [i |-> st.i + 1, rest |-> st.rest,
                       idx |-> InsertSorted(st.idx, <<ParseInt(k).val, st.i>>)]
                 ELSE [i |-> st.i + 1, rest |-> Append(st.rest, st.i),
                       idx |-> st.idx],
                 LAMBDA next : KeyOrder(obj, next))

\* The positions of obj's properties in the order `for (k in obj)` visits them.
ForIn(obj) ==
    Bind(KeyOrder(obj, [i |-> 1, idx |-> <<>>, rest |-> <<>>]),
         LAMBDA st : [j \in 1..Len(st.idx) |-> st.idx[j][2]] \o st.rest)

----------------------------------------------------------------------------
(* The payloads of the profile document. *)

Obj(pairs) == [props |-> pairs]

Max(a, b) == IF a > b THEN a ELSE b
Min(a, b) == IF a < b THEN a ELSE b

\* Keys of the generated one-entry payloads {"<day>": {"<hour>": count}}.
DayKeys == {<<"7">>, <<"8">>}
HourKeys == {<<"0">>, <<"2", "4">>}

OneEntry(dk, hk, c) == Obj(<<<<dk, Obj(<<<<hk, c>>>>)>>>>)

\* {"1": {"9": 5}}
ScenarioData == OneEntry(<<"1">>, <<"9">>, 5)

\* All 168 pairs present with count 0.
AllZeroData ==
    Obj([d \in 1..7 |->
           <<NatToString(d),
             Obj([h \in 1..24 |-> <<NatToString(h - 1), 0>>] \o <<>>)>>] \o <<>>)

\* {"3": {"14": 2, "2": 5}, "1": {"0": 1}}
SeveralData ==
    Obj(<< <<<<"3">>, Obj(<< <<<<"1", "4">>, 2>>, <<<<"2">>, 5>> >>)>>,
           <<<<"1">>, Obj(<< <<<<"0">>, 1>> >>)>> >>)

\* {"01": {"9": 3}, "1": {"9": 5}}: two keys that parseInt maps to day 1.
CollidingData ==
    Obj(<< <<<<"0", "1">>, Obj(<< <<<<"9">>, 3>> >>)>>,
           <<<<"1">>, Obj(<< <<<<"9">>, 5>> >>)>> >>)

\* {"2": {"5": -2, "6": 5}}: a negative count.
NegativeData ==
    Obj(<< <<<<"2">>, Obj(<< <<<<"5">>, -2>>, <<<<"6">>, 5>> >>)>> >>)

\* {"2": {"5": -2}}
OnlyNegativeData == OneEntry(<<"2">>, <<"5">>, -2)

\* {"8": {"3": 5}, "1": {"3": 2}}: a day key outside 1..7 with the largest count.
OutOfRangeData ==
    Obj(<< <<<<"8">>, Obj(<< <<<<"3">>, 5>> >>)>>,
           <<<<"1">>, Obj(<< <<<<"3">>, 2>> >>)>> >>)

\* {"mon": {"x": 4}, "0x2": {" 7": 5}}: keys parseInt reads as NaN, 2 and 7.
OddKeysData ==
    Obj(<< <<<<"m", "o", "n">>, Obj(<< <<<<"x">>, 4>> >>)>>,
           <<<<"0", "x", "2">>, Obj(<< <<<<" ", "7">>, 5>> >>)>> >>)

GridData ==
    {OneEntry(dk, hk, c) : dk \in DayKeys, hk \in HourKeys, c \in 1..MaxCount}
        \cup {ScenarioData, AllZeroData, SeveralData, CollidingData,
              NegativeData, OnlyNegativeData, OutOfRangeData, OddKeysData}

\* The values of the review_rhythm field: absent, {} (no data key),
\* {"data": {}} and {"data": {...}}.
RhythmPayloads ==
    {Null, [data |-> Null], [data |-> Obj(<<>>)]}
        \cup {[data |-> g] : g \in GridData}

\* The values of the cuisine_diversity field: absent, well-formed
\* ({"category_counts": {"t": 2, "b": 5, "p": 2}, "diversity_score": 1.386}),
\* with a null score, and without category_counts.
CategoryCounts == Obj(<< <<<<"t">>, 2>>, <<<<"b">>, 5>>, <<<<"p">>, 2>> >>)
CuisinePayloads ==
    {Null,
     [category_counts |-> CategoryCounts, diversity_score |-> [type |-> "number", milli |-> 1386]],
     [category_counts |-> CategoryCounts, diversity_score |-> Null],
     [category_counts |-> [undefined |-> TRUE], diversity_score |-> [type |-> "number", milli |-> 500]]}

\* The values of the sentiment_timeline field: absent, well-formed
\* ({"timeline": {"2021": 0.812, "2019": -0.104}}), with a score that is a
\* string ({"timeline": {"2020": "0.8"}}), and with an empty timeline.
SentimentPayloads ==
    {Null,
     [timeline |-> Obj(<< <<<<"2", "0", "2", "1">>, [type |-> "number", milli |-> 812]>>,
                          <<<<"2", "0", "1", "9">>, [type |-> "number", milli |-> -104]>> >>)],
     [timeline |-> Obj(<< <<<<"2", "0", "2", "0">>,
                            [type |-> "string", chars |-> <<"0", ".", "8">>]>> >>)],
     [timeline |-> Obj(<<>>)]}

\* The profile documents: every rhythm payload without the sibling fields,
\* and every combination of the sibling fields with and without a rhythm.
Profiles ==
    {[review_rhythm |-> rr, cuisine_diversity |-> Null, sentiment_timeline |-> Null] :
        rr \in RhythmPayloads}
    \cup {[review_rhythm |-> rr, cuisine_diversity |-> c, sentiment_timeline |-> s] :
             rr \in {Null, [data |-> ScenarioData]},
             c \in CuisinePayloads, s \in SentimentPayloads}

\* What the text input can hold.
UserIds == {<<>>, <<" ">>, <<"u", "1">>}

\* A response body that is not JSON: response.json() rejects.
Unparsable == [unparsable |-> TRUE]

\* The outcomes of one request: a 200 response with a profile, with the
\* JSON body null, or with a body that does not parse; a non-ok response
\* whose JSON body has a detail, has none, is null, or does not parse; and
\* a rejected fetch (status 0).
Responses ==
    {[status |-> 200, json |-> p] : p \in Profiles}
        \cup {[status |-> 200, json |-> Null],
              [status |-> 200, json |-> Unparsable],
              [status |-> 404, json |-> [detail |-> [message |-> "User not found"]]],
              [status |-> 500, json |-> [detail |-> Null]],
              [status |-> 500, json |-> Null],
              [status |-> 502, json |-> Unparsable],
              [status |-> 0, json |-> Null]}

\* The cells the pointer is moved over, as <<dayIndex, hour>>.
PointerCells == {<<0, 9>>, <<3, 14>>, <<6, 23>>}

----------------------------------------------------------------------------
(* ReviewRhythm: data processing, lines 30-44. *)

\* A JavaScript Map from key strings to values.
EmptyMap == <<>>
MapHas(m, k) == k \in DOMAIN m
MapGet(m, k) == m[k]
MapSet(m, k, v) == (k :> v) @@ m

\* `${a}-${b}`
CellKey(a, b) == NumToString(a) \o <<"-">> \o NumToString(b)

\* The body of the inner loop for one hour key (lines 35-40); the loop
\* state st is <<position in the for-in order, processedDataMap, maxValue>>.
BinEntry(st, day, hourStr, count) ==
    LET hour == ParseInt(hourStr)
    IN [i |-> st.i + 1,
        map |-> MapSet(st.map, CellKey(Minus1(day), hour), count),
        maxValue |-> IF count > st.maxValue THEN count ELSE st.maxValue]

\* for (const hourStr in data.data[dayStr]), lines 34-41.
RECURSIVE BinHours(_, _, _, _)
BinHours(hours, order, day, st) ==
    IF st.i > Len(order) THEN st
    ELSE Bind(BinEntry(st, day, hours.props[order[st.i]][1],
                       hours.props[order[st.i]][2]),
              LAMBDA next : BinHours(hours, order, day, next))

\* for (const dayStr in data.data), lines 32-42.
RECURSIVE BinDays(_, _, _)
BinDays(data, order, st) ==
    IF st.i > Len(order) THEN st
    ELSE LET dayStr == data.props[order[st.i]][1]
             hours == data.props[order[st.i]][2]
         IN Bind(ForIn(hours.props), LAMBDA hourOrder :
            Bind(ParseInt(dayStr), LAMBDA day :
            Bind(BinHours(hours, hourOrder, day,
                          [i |-> 1, map |-> st.map, maxValue |-> st.maxValue]),
                 LAMBDA r : BinDays(data, order,
                     [i |-> st.i + 1, map |-> r.map, maxValue |-> r.maxValue]))))

\* processedDataMap and maxValue after the loops of lines 30-42.
ProcessData(data) ==
    Bind(ForIn(data.props), LAMBDA order :
         BinDays(data, order, [i |-> 1, map |-> EmptyMap, maxValue |-> 0]))

\* The domain without the floor of 1.
NewDomainNoFloor(maxValue) == <<0, maxValue>>
\* The domain line 44 gives the colour scale.
NewDomain(maxValue) == <<0, Max(maxValue, 1)>>

----------------------------------------------------------------------------
(* colorScale: d3 scaleLinear().range([C0, C1]).clamp(true), lines 17-19.  *)
(* A fraction is a pair <<numerator, denominator>>, denominator > 0.       *)

\* The scale without .clamp(true).
ClamperOff(dom, x) == x
\* d3 clamper(a, b).
Clamper(dom, x) ==
    LET a == Min(dom[1], dom[2])
        b == Max(dom[1], dom[2])
    IN Max(a, Min(b, x))

\* normalize measuring from the upper end of the domain.
NormalizeReversed(a, b, x) ==
    IF b - a = 0 THEN <<1, 2>> ELSE <<b - x, b - a>>
\* d3 normalize(a, b): x -> (x - a) / (b - a), the constant 0.5 when b = a.
Normalize(a, b, x) ==
    IF b - a = 0 THEN <<1, 2>> ELSE <<x - a, b - a>>

\* The interpolation parameter of x: bimap's d0 applied to the clamped x.
Fraction(dom, x) ==
    IF dom[2] < dom[1] THEN Normalize(dom[2], dom[1], Clamper(dom, x))
    ELSE Normalize(dom[1], dom[2], Clamper(dom, x))

\* One channel of interpolateRgb(a, b)(t), as formatRgb rounds it.
Channel(a, b, t) ==
    LET r == (2 * (a * t[2] + t[1] * (b - a)) + t[2]) \div (2 * t[2])
    IN Max(0, Min(255, r))

\* colorScale(x) with the scale's current domain.
colorScale(dom, x) ==
    LET lo == IF dom[2] < dom[1] THEN C1 ELSE C0
        hi == IF dom[2] < dom[1] THEN C0 ELSE C1
    IN Bind(Fraction(dom, x), LAMBDA t : [i \in 1..3 |-> Channel(lo[i], hi[i], t)])

----------------------------------------------------------------------------
(* ReviewRhythm: rendering, lines 25-27 and 46-147. *)

\* isHovered comparing the day only.
IsHoveredRow(hov, dayIndex, hour) ==
    hov # Null /\ hov.day = dayIndex
\* isHovered of line 84.
IsHovered(hov, dayIndex, hour) ==
    hov # Null /\ hov.day = dayIndex /\ hov.hour = hour

\* x without the padding between the columns.
CellXNoPadding(hour) == hour * CELL_SIZE
\* The x of a cell, line 89, and its y, line 90, inside the group of cells.
CellX(hour) == hour * (CELL_SIZE + CELL_PADDING)
CellY(dayIndex) == dayIndex * (CELL_SIZE + CELL_PADDING)

\* Lines 47-48.
chartWidth == Y_AXIS_WIDTH + Len(hoursOfDay) * (CELL_SIZE + CELL_PADDING)
chartHeight == X_AXIS_HEIGHT + Len(daysOfWeek) * (CELL_SIZE + CELL_PADDING)

\* A label for every second hour.
HourLabelShownEven(hour) == hour % 2 = 0
\* Line 129: the hours that get a label.
HourLabelShown(hour) == hour % 3 = 0

\* The <text> elements of the x axis, lines 127-143; x is the position of
\* the anchor inside the group of hour labels.
HourLabels ==
    LET hours == SelectSeq(hoursOfDay, HourLabelShown)
    IN [i \in DOMAIN hours |->
          [hour |-> hours[i],
           x |-> hours[i] * (CELL_SIZE + CELL_PADDING) + CELL_SIZE \div 2,
           y |-> X_AXIS_HEIGHT - 8,
           textAnchor |-> "middle",
           text |-> NumToString(Num(hours[i])) \o <<":", "0", "0">>]] \o <<>>

\* The <text> elements of the y axis, lines 110-124.
DayLabels ==
    [i \in DOMAIN daysOfWeek |->
       [index |-> i - 1,
        x |-> Y_AXIS_WIDTH - 8,
        y |-> (i - 1) * (CELL_SIZE + CELL_PADDING) + CELL_SIZE \div 2,
        textAnchor |-> "end",
        text |-> daysOfWeek[i]]] \o <<>>

\* The <svg> around the grid: its size (line 78) and the translations of
\* the groups of cells (line 79), day labels (line 110) and hour labels
\* (line 127), with the labels.
Chart ==
    [width |-> chartWidth, height |-> chartHeight,
     cellsOrigin |-> <<Y_AXIS_WIDTH, X_AXIS_HEIGHT>>,
     dayLabelsOrigin |-> <<0, X_AXIS_HEIGHT>>,
     hourLabelsOrigin |-> <<Y_AXIS_WIDTH, 0>>,
     dayLabels |-> DayLabels, hourLabels |-> HourLabels]

\* One <rect> of the grid with the values its handlers close over
\* (lines 83-102); t is the interpolation parameter behind its fill.
Cell(map, hov, dom, dayIndex, hour) ==
    Bind(CellKey(Num(dayIndex), Num(hour)), LAMBDA key :
    Bind(IF MapHas(map, key) /\ MapGet(map, key) # 0
         THEN MapGet(map, key) ELSE 0, LAMBDA count :
       [day |-> dayIndex, hour |-> hour, count |-> count,
        x |-> CellX(hour), y |-> CellY(dayIndex),
        width |-> CELL_SIZE, height |-> CELL_SIZE,
        fill |-> colorScale(dom, count), t |-> Fraction(dom, count),
        hovered |-> IsHovered(hov, dayIndex, hour)]))

\* daysOfWeek.map(... hoursOfDay.map(...)), flattened in document order.
Cells(map, hov, dom) ==
    [k \in 1..(Len(daysOfWeek) * Len(hoursOfDay)) |->
        Cell(map, hov, dom, (k - 1) \div Len(hoursOfDay),
             hoursOfDay[((k - 1) % Len(hoursOfDay)) + 1])]

\* renderTooltip with the two axis gutters exchanged.
renderTooltipSwapped(hov) ==
    IF hov = Null THEN Null
    ELSE [left |-> X_AXIS_HEIGHT + hov.hour * (CELL_SIZE + CELL_PADDING)
                     + CELL_SIZE \div 2,
          top |-> Y_AXIS_WIDTH + hov.day * (CELL_SIZE + CELL_PADDING) - 10,
          day |-> hov.day, hour |-> hov.hour, count |-> hov.count]
\* renderTooltip, lines 51-73.
renderTooltip(hov) ==
    IF hov = Null THEN Null
    ELSE [left |-> Y_AXIS_WIDTH + hov.hour * (CELL_SIZE + CELL_PADDING)
                     + CELL_SIZE \div 2,
          top |-> X_AXIS_HEIGHT + hov.day * (CELL_SIZE + CELL_PADDING) - 10,
          day |-> hov.day, hour |-> hov.hour, count |-> hov.count]

\* The guard without the Object.keys(...).length test.
NoRhythmDataKeysUnchecked(data) ==
    data = Null \/ data.data = Null
\* The guard of line 25.
NoRhythmData(data) ==
    data = Null \/ data.data = Null \/ Len(data.data.props) = 0

\* The component colouring the cells before line 44 updates the domain.
ReviewRhythmStaleScale(data, hov, dom) ==
    IF NoRhythmData(data)
    THEN [kind |-> "fallback", cells |-> <<>>, tooltip |-> Null, chart |-> Null,
          domain |-> dom]
    ELSE Bind(ProcessData(data.data), LAMBDA p :
            [kind |-> "grid", cells |-> Cells(p.map, hov, dom), chart |-> Chart,
             tooltip |-> renderTooltip(hov), domain |-> NewDomain(p.maxValue)])
\* One call of the component function: what it returns, and the domain it
\* leaves in the module-level colour scale.
ReviewRhythm(data, hov, dom) ==
    IF NoRhythmData(data)
    THEN [kind |-> "fallback", cells |-> <<>>, tooltip |-> Null, chart |-> Null,
          domain |-> dom]
    ELSE Bind(ProcessData(data.data), LAMBDA p :
         Bind(NewDomain(p.maxValue), LAMBDA d :
            [kind |-> "grid", cells |-> Cells(p.map, hov, d), chart |-> Chart,
             tooltip |-> renderTooltip(hov), domain |-> d]))

----------------------------------------------------------------------------
(* The sibling widgets CuisineDiversity and SentimentTimeline.  A JavaScript *)
(* value is Null, Undefined, a number held in thousandths, a string or an   *)
(* object; a component returns its elements or throws while rendering.      *)

Undefined == [undefined |-> TRUE]
Milli(m) == [type |-> "number", milli |-> m]
Str(s) == [type |-> "string", chars |-> s]
NaNValue == [type |-> "nan"]

IsNumber(v) == "type" \in DOMAIN v /\ v.type = "number"

\* ToBoolean.
Truthy(v) ==
    /\ v # Null /\ v # Undefined /\ v # NaNValue
    /\ v # Milli(0) /\ v # Str(<<>>)

RECURSIVE Pow10(_)
Pow10(n) == IF n = 0 THEN 1 ELSE 10 * Pow10(n - 1)

\* Number.prototype.toFixed(2) of m thousandths.
ToFixed2(m) ==
    LET a == IF m < 0 THEN -m ELSE m
        h == (a + 5) \div 10
        body == NatToString(h \div 100)
                  \o <<".", DigitChars[((h % 100) \div 10) + 1], DigitChars[(h % 10) + 1]>>
    IN IF m < 0 THEN <<"-">> \o body ELSE body

\* parseFloat of a decimal literal with at most three fraction digits.
ParseFloat(str) ==
    LET s1 == SkipWhiteSpace(str)
        neg == s1 # <<>> /\ Head(s1) = "-"
        s2 == IF s1 # <<>> /\ Head(s1) \in {"-", "+"} THEN Tail(s1) ELSE s1
        ip == ReadDigits(s2, 10, <<0, 0>>)
        rest == SubSeq(s2, ip[2] + 1, Len(s2))
        fp == IF rest # <<>> /\ Head(rest) = "."
              THEN ReadDigits(SubSeq(rest, 2, Min(Len(rest), 4)), 10, <<0, 0>>)
              ELSE <<0, 0>>
        m == ip[1] * 1000 + fp[1] * Pow10(3 - fp[2])
    IN IF ip[2] = 0 /\ fp[2] = 0 THEN NaNValue
       ELSE Milli(IF neg THEN -m ELSE m)

\* Object.entries(obj): the properties in for-in order.
ObjectEntries(obj) ==
    Bind(ForIn(obj.props), LAMBDA order :
         [j \in 1..Len(order) |-> obj.props[order[j]]] \o <<>>)

\* Array.prototype.sort (stable) with a comparator that subtracts two sort
\* keys: acc holds the positions of the first i - 1 keys in ascending order
\* of the keys, equal keys in their original order.
RECURSIVE SortOrder(_, _, _)
SortOrder(keys, i, acc) ==
    IF i > Len(keys) THEN acc
    ELSE Bind(Cardinality({j \in DOMAIN acc : keys[acc[j]] <= keys[i]}),
              LAMBDA k :
         Bind(SubSeq(acc, 1, k) \o <<i>> \o SubSeq(acc, k + 1, Len(acc)),
              LAMBDA next : SortOrder(keys, i + 1, next)))

\* The entries sorted by ascending keys, keys[j] being the key of entries[j].
SortEntries(entries, keys) ==
    Bind(SortOrder(keys, 1, <<>>), LAMBDA order :
         [j \in 1..Len(order) |-> entries[order[j]]] \o <<>>)

\* CuisineDiversity.js: the guard of line 4, the level of lines 10-17, the
\* ten largest categories of lines 20-22 and the score text of line 46,
\* where toFixed exists on numbers only.
CuisineDiversity(data) ==
    IF \/ ~Truthy(data)
       \/ ~Truthy(data.category_counts)
       \/ data.diversity_score = Undefined
    THEN [kind |-> "fallback"]
    ELSE IF ~IsNumber(data.diversity_score)
    THEN [kind |-> "throws"]
    ELSE Bind(ObjectEntries(data.category_counts), LAMBDA entries :
         Bind(SortEntries(entries, [j \in DOMAIN entries |-> 0 - entries[j][2]]),
              LAMBDA sorted :
           [kind |-> "widget",
            level |-> IF data.diversity_score.milli < 1000 THEN "Low Diversity"
                      ELSE IF data.diversity_score.milli < 2000 THEN "Medium Diversity"
                      ELSE "High Diversity",
            sortedCategories |-> SubSeq(sorted, 1, Min(Len(sorted), 10)),
            score |-> ToFixed2(data.diversity_score.milli)]))

\* SentimentTimeline.js: the guard of line 6 and chartData of lines 12-17,
\* where score.toFixed exists on numbers only.
SentimentTimeline(data) ==
    IF \/ ~Truthy(data)
       \/ ~Truthy(data.timeline)
       \/ Len(data.timeline.props) = 0
    THEN [kind |-> "fallback"]
    ELSE Bind(ObjectEntries(data.timeline), LAMBDA entries :
         IF \E j \in DOMAIN entries : ~IsNumber(entries[j][2])
         THEN [kind |-> "throws"]
         ELSE [kind |-> "widget",
               chartData |->
                 SortEntries([j \in DOMAIN entries |->
                                [year |-> ParseInt(entries[j][1]).val,
                                 moodScore |-> ParseFloat(ToFixed2(entries[j][2].milli))]],
                             [j \in DOMAIN entries |-> ParseInt(entries[j][1]).val])])

----------------------------------------------------------------------------
(* HomePage. *)

\* Line 261: the dashboard is rendered only with data and not while loading.
DashboardShown(pd, loading) == pd # Null /\ ~loading

\* Lines 268-271: the section mounts ReviewRhythm for a truthy field.
RhythmMounted(pd, loading) ==
    DashboardShown(pd, loading) /\ pd.review_rhythm # Null

\* The Review Rhythm section of one render of the page.
RhythmSection(pd, loading, hov, dom) ==
    IF ~DashboardShown(pd, loading)
    THEN [kind |-> "hidden", cells |-> <<>>, tooltip |-> Null, chart |-> Null,
          domain |-> dom]
    ELSE IF ~RhythmMounted(pd, loading)
    THEN [kind |-> "page-fallback", cells |-> <<>>, tooltip |-> Null, chart |-> Null,
          domain |-> dom]
    ELSE ReviewRhythm(pd.review_rhythm, hov, dom)

\* Lines 289-292 and 298-301: a sibling section mounts its widget for a
\* truthy field and shows the page's own text otherwise.
SiblingSections(pd, loading) ==
    IF ~DashboardShown(pd, loading)
    THEN [cuisine |-> [kind |-> "hidden"], sentiment |-> [kind |-> "hidden"]]
    ELSE [cuisine |-> IF Truthy(pd.cuisine_diversity)
                      THEN CuisineDiversity(pd.cuisine_diversity)
                      ELSE [kind |-> "page-fallback"],
          sentiment |-> IF Truthy(pd.sentiment_timeline)
                        THEN SentimentTimeline(pd.sentiment_timeline)
                        ELSE [kind |-> "page-fallback"]]

\* A component of the page has thrown while rendering.
RenderThrows(sib) == sib.cuisine.kind = "throws" \/ sib.sentiment.kind = "throws"

\* A hover state that outlives the component.
NextHoverKept(hov, wasMounted, isMounted) == hov
\* useState(null) of line 23: the hover state lives as long as the
\* component stays mounted and starts again at null on a new mount.
NextHover(hov, wasMounted, isMounted) ==
    IF wasMounted /\ isMounted THEN hov ELSE Null

\* The state updates of one handler, followed by the render they cause.
\* No error boundary surrounds the sections: when a component throws, React
\* unmounts the page, and nothing of it is left to handle an event.
Commit(u, pd, loading, err, pend, hovSet) ==
    \E hov \in {NextHover(hovSet, RhythmMounted(profileData, isLoading),
                           RhythmMounted(pd, loading))} :
    \E out \in {RhythmSection(pd, loading, hov, scaleDomain)} :
    \E sib \in {SiblingSections(pd, loading)} :
       /\ ~crashed
       /\ userId' = u
       /\ profileData' = pd
       /\ isLoading' = loading
       /\ error' = err
       /\ pending' = pend
       /\ scaleDomain' = out.domain
       /\ domainBefore' = scaleDomain
       /\ crashed' = RenderThrows(sib)
       /\ IF RenderThrows(sib)
          THEN /\ hoveredCell' = Null
               /\ view' = [kind |-> "hidden", cells |-> <<>>, tooltip |-> Null,
                           chart |-> Null]
               /\ sections' = SiblingSections(Null, FALSE)
          ELSE /\ hoveredCell' = hov
               /\ view' = [kind |-> out.kind, cells |-> out.cells,
                           tooltip |-> out.tooltip, chart |-> out.chart]
               /\ sections' = sib

\* onChange of the text input, line 238.
ChangeUserId(v) ==
    /\ v # userId
    /\ Commit(v, profileData, isLoading, error, pending, hoveredCell)
    /\ UNCHANGED <<latest, shown>>

\* The smallest request number that no pending request carries.
FreshId(pend) ==
    LET used == {pend[j].id : j \in DOMAIN pend}
    IN CHOOSE n \in 0..Len(pend) : n \notin used /\ \A m \in 0..(n - 1) : m \in used

\* A submit button that is never disabled.
SubmitAlwaysEnabled(loading) == TRUE
\* Line 244: the submit button is disabled while isLoading, which also
\* blocks the implicit submission of the form from the text input.
SubmitEnabled(loading) == ~loading

\* fetchProfileData without the setError(null) of line 202.
SubmitErrorKept ==
    /\ SubmitEnabled(isLoading)
    /\ IF Trim(userId) = <<>>
       THEN /\ Commit(userId, Null, isLoading,
                      [message |-> "Please enter a User ID."], pending, hoveredCell)
            /\ latest' = [kind |-> "blank"]
            /\ shown' = [kind |-> "blank"]
       ELSE \E id \in {FreshId(pending)} :
            /\ Commit(userId, Null, TRUE, error,
                      Append(pending, [userId |-> userId, id |-> id]), hoveredCell)
            /\ latest' = [kind |-> "request", id |-> id]
            /\ shown' = [kind |-> "none"]
\* handleSubmit -> fetchProfileData up to the await of line 207.  The submit
\* button is disabled while isLoading (line 244).
Submit ==
    /\ SubmitEnabled(isLoading)
    /\ IF Trim(userId) = <<>>
       THEN /\ Commit(userId, Null, isLoading,
                      [message |-> "Please enter a User ID."], pending, hoveredCell)
            /\ latest' = [kind |-> "blank"]
            /\ shown' = [kind |-> "blank"]
       ELSE \E id \in {FreshId(pending)} :
            /\ Commit(userId, Null, TRUE, Null,
                      Append(pending, [userId |-> userId, id |-> id]), hoveredCell)
            /\ latest' = [kind |-> "request", id |-> id]
            /\ shown' = [kind |-> "none"]

\* What lines 207-217 make of a response: <<profileData, error>>.
\* fetch rejects (line 207); an ok response whose body does not parse
\* rejects at line 212, another ok response gives the data; a non-ok
\* response throws the detail of its body (lines 208-211), where reading
\* the detail of a null body throws a TypeError itself.
FetchOutcome(resp) ==
    IF resp.status = 0
    THEN <<Null, [message |-> "Failed to fetch"]>>
    ELSE IF resp.status = 200
    THEN IF resp.json = Unparsable
         THEN <<Null, [message |-> "Unexpected token"]>>
         ELSE <<resp.json, Null>>
    ELSE IF resp.json = Unparsable
    THEN <<Null, [message |-> "Failed to fetch data. Invalid JSON response."]>>
    ELSE IF resp.json = Null
    THEN <<Null, [message |-> "Cannot read properties of null"]>>
    ELSE IF resp.json.detail = Null
    THEN <<Null, [message |-> "HTTP error! status"]>>
    ELSE <<Null, resp.json.detail>>

RemoveAt(s, i) == SubSeq(s, 1, i - 1) \o SubSeq(s, i + 1, Len(s))

\* The rest of fetchProfileData once the request i has settled (lines 208-220).
FetchSettle(i, resp) ==
    /\ i \in DOMAIN pending
    /\ LET o == FetchOutcome(resp)
       IN Commit(userId, o[1], FALSE, o[2], RemoveAt(pending, i), hoveredCell)
    /\ latest' = latest
    /\ shown' = [kind |-> "request", id |-> pending[i].id, resp |-> resp]

\* The position of cell (dayIndex, hour) among the rendered cells.
CellAt(c) ==
    CHOOSE k \in DOMAIN view.cells :
        view.cells[k].day = c[1] /\ view.cells[k].hour = c[2]

\* The hover state with the row and the column exchanged.
HoverStateSwapped(cell) ==
    [day |-> cell.hour, hour |-> cell.day, count |-> cell.count]
\* { day: dayIndex, hour, count } of line 101, from the values the cell's
\* handler closes over.
HoverState(cell) ==
    [day |-> cell.day, hour |-> cell.hour, count |-> cell.count]

\* onMouseEnter of a cell, line 101.
MouseEnter(c) ==
    /\ view.kind = "grid"
    /\ \E cell \in {view.cells[CellAt(c)]} :
          Commit(userId, profileData, isLoading, error, pending, HoverState(cell))
    /\ UNCHANGED <<latest, shown>>

\* onMouseLeave of a cell, line 102.
MouseLeave ==
    /\ view.kind = "grid"
    /\ Commit(userId, profileData, isLoading, error, pending, Null)
    /\ UNCHANGED <<latest, shown>>

Init ==
    /\ userId = <<>>
    /\ profileData = Null
    /\ isLoading = FALSE
    /\ error = Null
    /\ pending = <<>>
    /\ hoveredCell = Null
    /\ scaleDomain = <<0, 1>>
    /\ view = [kind |-> "hidden", cells |-> <<>>, tooltip |-> Null, chart |-> Null]
    /\ domainBefore = <<0, 1>>
    /\ sections = SiblingSections(Null, FALSE)
    /\ crashed = FALSE
    /\ latest = [kind |-> "none"]
    /\ shown = [kind |-> "none"]

Next ==
    \/ \E v \in UserIds : ChangeUserId(v)
    \/ Submit
    \/ \E i \in 1..Len(pending), resp \in Responses : FetchSettle(i, resp)
    \/ \E c \in PointerCells : MouseEnter(c)
    \/ MouseLeave

Spec == Init /\ [][Next]_vars

\* The promise of fetch settles: a pending request is answered or fails.
FairSpec == Spec /\ WF_vars(\E i \in 1..Len(pending), resp \in Responses : FetchSettle(i, resp))

----------------------------------------------------------------------------
(* Properties. *)

\* The dashboard is on screen and rr is the value of its review_rhythm field.
PageShows(rr) ==
    /\ ~crashed
    /\ profileData # Null /\ ~isLoading /\ profileData.review_rhythm = rr

\* The payload passes the emptiness guard: it has a non-empty data object.
HasEntries(rr) == rr # Null /\ rr.data # Null /\ rr.data.props # <<>>

GridShown == view.kind = "grid"

\* The data object of the payload on screen.
ShownData == profileData.review_rhythm.data

\* The decimal numerals of lo..hi.
Numerals(lo, hi) == {NatToString(n) : n \in lo..hi}

\* The entries of a data object as <<day key, hour key, count>>.
Entries(data) ==
    UNION {{<<data.props[i][1], data.props[i][2].props[j][1],
              data.props[i][2].props[j][2]>> :
                j \in DOMAIN data.props[i][2].props} : i \in DOMAIN data.props}

\* Valid input: day keys in 1..7, hour keys in 0..23, counts >= 0.
ValidData(data) ==
    \A e \in Entries(data) :
        e[1] \in Numerals(1, 7) /\ e[2] \in Numerals(0, 23) /\ e[3] >= 0

\* The input count of the pair (d, h), 0 when the pair is absent.
InputCount(data, d, h) ==
    LET hit == {e \in Entries(data) :
                    e[1] = NatToString(d) /\ e[2] = NatToString(h)}
    IN IF hit = {} THEN 0 ELSE (CHOOSE e \in hit : TRUE)[3]

CellCounts == {view.cells[k].count : k \in DOMAIN view.cells}
Largest(S) == CHOOSE m \in S : \A n \in S : n <= m
HoveredCells == {k \in DOMAIN view.cells : view.cells[k].hovered}

\* C1: every payload that passes the emptiness guard, whatever its keys, is
\* rendered as exactly 168 cells, exactly one for each pair of a day in 0..6
\* and an hour in 0..23.
C1_DenseGrid ==
    \A rr \in RhythmPayloads :
        (PageShows(rr) /\ HasEntries(rr)) =>
            /\ GridShown
            /\ Len(view.cells) = 168
            /\ {<<view.cells[k].day, view.cells[k].hour>> : k \in DOMAIN view.cells}
                 = (0..6) \X (0..23)

\* A grid is on screen for the payload with the keys "mon", "x", "0x2", " 7".
C1_Witness ==
    /\ PageShows([data |-> OddKeysData])
    /\ GridShown
    /\ Len(view.cells) = 168

\* C2: for valid input the count of cell (d - 1, h) is the input count of
\* (d, h) when that pair is present and 0 when it is absent.
C2_CountsFromInput ==
    (GridShown /\ ValidData(ShownData)) =>
        \A k \in DOMAIN view.cells :
            view.cells[k].count =
                InputCount(ShownData, view.cells[k].day + 1, view.cells[k].hour)

\* {"1": {"9": 5}} on screen: cell (0, 9) holds 5, the other 167 cells 0.
C2_Witness ==
    /\ PageShows([data |-> ScenarioData])
    /\ GridShown
    /\ \E k \in DOMAIN view.cells :
          /\ view.cells[k].day = 0 /\ view.cells[k].hour = 9
          /\ view.cells[k].count = 5
          /\ \A j \in DOMAIN view.cells \ {k} : view.cells[j].count = 0

\* C3: after binning the colour domain is [0, maxCount] with maxCount >= 1,
\* and for valid input maxCount is the larger of 1 and the largest cell count.
C3_MaxCountFloor ==
    GridShown =>
        /\ scaleDomain[1] = 0
        /\ scaleDomain[2] >= 1
        /\ ValidData(ShownData) =>
              scaleDomain[2] = Max(1, Largest(CellCounts))

\* The payload with all 168 pairs at 0 is on screen and maxCount is 1.
C3_Witness ==
    /\ PageShows([data |-> AllZeroData])
    /\ GridShown
    /\ CellCounts = {0}
    /\ scaleDomain = <<0, 1>>

\* C4: a payload that is absent, has no data key or has an empty data object
\* is shown as text only: no cell, no tooltip, no hover state, the colour
\* domain untouched by the render, and no error on the page.
C4_Fallback ==
    \A rr \in RhythmPayloads :
        (PageShows(rr) /\ ~HasEntries(rr)) =>
            /\ view.kind = IF rr = Null THEN "page-fallback" ELSE "fallback"
            /\ view.cells = <<>>
            /\ view.tooltip = Null
            /\ hoveredCell = Null
            /\ scaleDomain = domainBefore
            /\ error = Null

\* {"data": {}} is on screen as the component's fallback text.
C4_Witness ==
    /\ PageShows([data |-> Obj(<<>>)])
    /\ view.kind = "fallback"

\* C5: at most one cell is marked hovered, and it is the cell hoveredCell
\* names; without a grid there is no hover state.
C5_HoverExclusive ==
    /\ ~GridShown => hoveredCell = Null
    /\ GridShown =>
          /\ Cardinality(HoveredCells) <= 1
          /\ hoveredCell = Null => HoveredCells = {}
          /\ hoveredCell # Null =>
                \E k \in HoveredCells :
                    /\ view.cells[k].day = hoveredCell.day
                    /\ view.cells[k].hour = hoveredCell.hour

\* The pointer is on cell (3, 14), which alone is marked.
C5_Witness ==
    /\ GridShown
    /\ hoveredCell # Null
    /\ hoveredCell.day = 3 /\ hoveredCell.hour = 14
    /\ Cardinality(HoveredCells) = 1

\* C6: a tooltip exists exactly when hoveredCell is set, and its anchor is
\* the horizontal centre of the hovered cell, above the cell's top edge, in
\* the coordinates of the grid (the cells are drawn in a group translated
\* by the two axis gutters).
C6_TooltipDerived ==
    /\ (view.tooltip # Null) <=> (hoveredCell # Null)
    /\ view.tooltip # Null =>
          \E k \in HoveredCells :
              /\ view.cells[k].day = view.tooltip.day
              /\ view.cells[k].hour = view.tooltip.hour
              /\ 2 * view.tooltip.left
                   = 2 * (Y_AXIS_WIDTH + view.cells[k].x) + CELL_SIZE
              /\ view.tooltip.top < X_AXIS_HEIGHT + view.cells[k].y

\* The tooltip of cell (3, 14): centre 40 + 14 * 19 + 9, top edge 30 + 3 * 19.
C6_Witness ==
    /\ GridShown
    /\ view.tooltip # Null
    /\ view.tooltip.day = 3 /\ view.tooltip.hour = 14
    /\ view.tooltip.left = 315
    /\ view.tooltip.top = 77

\* C7: the interpolation parameter of every cell is its count clamped to
\* [0, maxCount] over maxCount, so it lies in [0, 1] and every channel of the
\* fill lies between the channels of C0 and C1; count 0 gives C0 and count
\* maxCount gives C1.
C7_ColourWithinEndpoints ==
    GridShown =>
        \A k \in DOMAIN view.cells :
            LET c == view.cells[k]
            IN /\ c.t[2] = scaleDomain[2]
               /\ c.t[1] = Max(0, Min(c.count, scaleDomain[2]))
               /\ c.t[2] > 0 /\ 0 <= c.t[1] /\ c.t[1] <= c.t[2]
               /\ \A i \in 1..3 :
                     /\ Min(C0[i], C1[i]) <= c.fill[i]
                     /\ c.fill[i] <= Max(C0[i], C1[i])
               /\ c.count = 0 => c.fill = C0
               /\ c.count = scaleDomain[2] => c.fill = C1

\* {"2": {"5": -2, "6": 5}} on screen: the count below the domain is drawn
\* in C0, the largest count in C1.
C7_Witness ==
    /\ PageShows([data |-> NegativeData])
    /\ GridShown
    /\ \E k \in DOMAIN view.cells :
          view.cells[k].count = -2 /\ view.cells[k].fill = C0
    /\ \E k \in DOMAIN view.cells :
          view.cells[k].count = 5 /\ view.cells[k].fill = C1

\* The pairs <<count, interpolation parameter>> of the cells on screen.
CountFractions == {<<view.cells[k].count, view.cells[k].t>> : k \in DOMAIN view.cells}

\* C8: within one render, of two cell counts c1 < c2 in [0, maxCount] the
\* first has the smaller or equal interpolation parameter.
C8_Monotonic ==
    GridShown =>
        \A a, b \in CountFractions :
            (0 <= a[1] /\ a[1] < b[1] /\ b[1] <= scaleDomain[2]) =>
                a[2][1] * b[2][2] <= b[2][1] * a[2][2]

\* {"3": {"14": 2, "2": 5}, "1": {"0": 1}} on screen: the counts 1 < 2 < 5
\* have strictly growing parameters.
C8_Witness ==
    /\ PageShows([data |-> SeveralData])
    /\ GridShown
    /\ {<<1, <<1, 5>>>>, <<2, <<2, 5>>>>, <<5, <<5, 5>>>>} \subseteq CountFractions

\* C9: every step that replaces the payload of the page leaves hoveredCell
\* at null.
C9_HoverResetOnNewData ==
    [][profileData' # profileData => hoveredCell' = Null]_vars

\* A grid just rebuilt for a payload with a smaller maximum than the grid
\* rendered before it, with no cell hovered.
C9_Witness ==
    /\ GridShown
    /\ hoveredCell = Null
    /\ domainBefore[2] > scaleDomain[2]

\* C10: what a grid shows is a function of the payload (and the hovered
\* cell) alone: it equals the render of the same payload by a colour scale
\* that no earlier render has touched.
C10_PureRender ==
    GridShown =>
        \E fresh \in {ReviewRhythm(profileData.review_rhythm, hoveredCell, <<0, 1>>)} :
           /\ view.cells = fresh.cells
           /\ view.tooltip = fresh.tooltip
           /\ scaleDomain = fresh.domain

\* {"1": {"9": 5}} rendered by a scale that the render of a payload with
\* maximum 2 left at [0, 2].
C10_Witness ==
    /\ PageShows([data |-> ScenarioData])
    /\ GridShown
    /\ domainBefore = <<0, 2>>
    /\ scaleDomain = <<0, 5>>

\* An entry <<day key, hour key, count>> whose keys parseInt reads as a day
\* of 1..7 and an hour of 0..23.
InRange(dayStr, hourStr) ==
    LET day == ParseInt(dayStr)
        hour == ParseInt(hourStr)
    IN /\ ~day.nan /\ day.val \in 1..7
       /\ ~hour.nan /\ hour.val \in 0..23

\* The data object without its out-of-range entries.
WithoutOutOfRange(data) ==
    Obj([i \in DOMAIN data.props |->
           <<data.props[i][1],
             Obj(SelectSeq(data.props[i][2].props,
                           LAMBDA e : InRange(data.props[i][1], e[1])))>>] \o <<>>)

\* C11: an entry whose day key is outside 1..7 or whose hour key is outside
\* 0..23 is skipped: the grid on screen has the counts, the maxCount and the
\* colours of the grid of the payload without its out-of-range entries.
C11_OutOfRangeSkipped ==
    GridShown =>
        \E clean \in {ProcessData(WithoutOutOfRange(ShownData))} :
        \E d \in {NewDomain(clean.maxValue)} :
           /\ scaleDomain = d
           /\ view.cells = Cells(clean.map, hoveredCell, d)

\* C12: the sections are isolated: whenever a profile has arrived, the page
\* is up, every section shows its widget or a fallback text, and whether the
\* Review Rhythm section shows its grid depends on the review_rhythm field
\* alone, whatever the fields of the sibling sections hold.
C12_SectionsIsolated ==
    (profileData # Null /\ ~isLoading) =>
        /\ ~crashed
        /\ sections.cuisine.kind \in {"widget", "fallback", "page-fallback"}
        /\ sections.sentiment.kind \in {"widget", "fallback", "page-fallback"}
        /\ GridShown <=> HasEntries(profileData.review_rhythm)

\* The rectangle a cell covers in the coordinates of the <svg>:
\* <<left, top, right, bottom>>.
CellRect(c) ==
    LET o == view.chart.cellsOrigin
    IN <<o[1] + c.x, o[2] + c.y, o[1] + c.x + c.width, o[2] + c.y + c.height>>

CellRects == {CellRect(view.cells[k]) : k \in DOMAIN view.cells}

\* Two intervals <<lo, hi>> share no interior point.
Apart(a, b) == a[2] <= b[1] \/ b[2] <= a[1]

\* C13: every cell (day, hour) lies at x = gutter + hour * (cell size +
\* padding), y = gutter + day * (cell size + padding); no two of the 168
\* cells overlap, and every cell lies inside the chart rectangle of width
\* gutter + 24 * (cell size + padding), height gutter + 7 * (cell size +
\* padding).
C13_CellLayout ==
    GridShown =>
        /\ \A k \in DOMAIN view.cells :
              LET c == view.cells[k]
                  r == CellRect(c)
              IN /\ r[1] = Y_AXIS_WIDTH + c.hour * (CELL_SIZE + CELL_PADDING)
                 /\ r[2] = X_AXIS_HEIGHT + c.day * (CELL_SIZE + CELL_PADDING)
                 /\ 0 <= r[1] /\ r[1] < r[3] /\ r[3] <= view.chart.width
                 /\ 0 <= r[2] /\ r[2] < r[4] /\ r[4] <= view.chart.height
        /\ Cardinality(CellRects) = 168
        /\ \A a, b \in {<<r[1], r[3]>> : r \in CellRects} : a = b \/ Apart(a, b)
        /\ \A a, b \in {<<r[2], r[4]>> : r \in CellRects} : a = b \/ Apart(a, b)
        /\ view.chart.width = Y_AXIS_WIDTH + 24 * (CELL_SIZE + CELL_PADDING)
        /\ view.chart.height = X_AXIS_HEIGHT + 7 * (CELL_SIZE + CELL_PADDING)

\* A grid is on screen whose last cell (6, 23) covers 477..495 x 144..162
\* of the 496 x 163 chart.
C13_Witness ==
    /\ GridShown
    /\ <<477, 144, 495, 162>> \in CellRects
    /\ view.chart.width = 496 /\ view.chart.height = 163

HourLabelsOnScreen == {view.chart.hourLabels[i] : i \in DOMAIN view.chart.hourLabels}

\* The cells of the column of hour h.
ColumnCells(h) == {view.cells[k] : k \in {j \in DOMAIN view.cells : view.cells[j].hour = h}}

\* The hours 0, 3, ..., 21 have one label each, and no other hour has one.
LabelsEveryThirdHour ==
    /\ Len(view.chart.hourLabels) = 8
    /\ {l.hour : l \in HourLabelsOnScreen} = {h \in 0..23 : h % 3 = 0}

\* C14 as stated: hour labels exist exactly for the hours divisible by 3,
\* and each is positioned at the horizontal start of its column, at the x
\* of the left edge of the cells of that hour.
C14_HourLabelsAtColumnStart ==
    GridShown =>
        /\ LabelsEveryThirdHour
        /\ \A l \in HourLabelsOnScreen : \A c \in ColumnCells(l.hour) :
              view.chart.hourLabelsOrigin[1] + l.x = CellRect(c)[1]

\* C14 amended: hour labels exist exactly for the hours divisible by 3, and
\* each is centred on its column: its text is anchored by its middle at the
\* left edge of the cells of that hour plus half the cell size, behind the
\* same gutter as the cells.
C14_HourLabelsAtColumnCentre ==
    GridShown =>
        /\ LabelsEveryThirdHour
        /\ view.chart.hourLabelsOrigin[1] = view.chart.cellsOrigin[1]
        /\ \A l \in HourLabelsOnScreen :
              /\ l.textAnchor = "middle"
              /\ ColumnCells(l.hour) # {}
              /\ \A c \in ColumnCells(l.hour) :
                    2 * (view.chart.hourLabelsOrigin[1] + l.x)
                        = CellRect(c)[1] + CellRect(c)[3]

\* A grid is on screen with the label "21:00" anchored at 40 + 21 * 19 + 9.
C14_Witness ==
    /\ GridShown
    /\ \E l \in HourLabelsOnScreen :
          /\ l.hour = 21
          /\ l.text = <<"2", "1", ":", "0", "0">>
          /\ view.chart.hourLabelsOrigin[1] + l.x = 448

\* C15: at most one request is in flight at any time, and once every
\* request has settled the page holds the outcome of the most recent
\* submission: the profile or the error of its response, or the validation
\* error of a blank user ID.
C15_LatestSubmissionWins ==
    /\ Len(pending) <= 1
    /\ (pending = <<>> /\ latest.kind # "none") =>
          /\ shown.kind = latest.kind
          /\ latest.kind = "blank" =>
                /\ profileData = Null
                /\ error = [message |-> "Please enter a User ID."]
          /\ latest.kind = "request" =>
                /\ shown.id = latest.id
                /\ profileData = FetchOutcome(shown.resp)[1]
                /\ error = FetchOutcome(shown.resp)[2]

\* The second request of a run has settled with a profile after the user ID
\* was edited while the request was in flight.
C15_Witness ==
    /\ pending = <<>>
    /\ latest.kind = "request"
    /\ shown.kind = "request"
    /\ shown.resp.status = 200
    /\ profileData # Null
    /\ error = Null
    /\ userId = <<" ">>

\* The request answered by resp has succeeded: an ok response with a body
\* that parses.
Succeeded(resp) == resp.status = 200 /\ resp.json # Unparsable

\* What the handlers of HomePage do to error and profileData.
HandlerRules ==
    \* A submit with an empty or blank user ID.
    /\ (Trim(userId) = <<>> /\ userId' = userId /\ latest'.kind = "blank") =>
          /\ error' = [message |-> "Please enter a User ID."]
          /\ profileData' = Null
          /\ pending' = pending
          /\ isLoading' = isLoading
    \* A request is started.
    /\ Len(pending') > Len(pending) =>
          isLoading' /\ error' = Null /\ profileData' = Null
    \* A request settles.
    /\ Len(pending') < Len(pending) =>
          /\ ~isLoading'
          /\ IF Succeeded(shown'.resp)
             THEN profileData' = shown'.resp.json /\ error' = Null
             ELSE profileData' = Null /\ error' # Null

\* C16: error and profileData are never both non-null; a submit with a
\* blank user ID sets error, clears profileData and starts no request; a
\* started request clears both; a failed request sets error and leaves
\* profileData null; a successful request sets profileData to the body of
\* its response and leaves error null; and every started request
\* eventually sets isLoading back to false.
C16_ErrorOrData ==
    /\ [](error = Null \/ profileData = Null)
    /\ [][HandlerRules]_vars
    /\ (isLoading ~> ~isLoading)

\* A request has failed with the 404 of an unknown user: the page holds the
\* error of the response and no profile.
C16_Witness ==
    /\ ~isLoading
    /\ shown.kind = "request"
    /\ shown.resp.status = 404
    /\ error = [message |-> "User not found"]
    /\ profileData = Null

\* C17: whenever a cell is hovered, a grid is on screen, the hover state
\* names a day in 0..6 and an hour in 0..23, and the count it stores, which
\* the tooltip reports, is the count of that cell of the grid on screen.
C17_HoverMatchesCell ==
    hoveredCell # Null =>
        /\ GridShown
        /\ hoveredCell.day \in 0..6
        /\ hoveredCell.hour \in 0..23
        /\ view.tooltip # Null
        /\ view.tooltip.count = hoveredCell.count
        /\ \E k \in DOMAIN view.cells :
              /\ view.cells[k].day = hoveredCell.day
              /\ view.cells[k].hour = hoveredCell.hour
              /\ view.cells[k].count = hoveredCell.count

\* {"1": {"9": 5}} is on screen and the pointer is on cell (0, 9): the
\* tooltip reports 5.
C17_Witness ==
    /\ PageShows([data |-> ScenarioData])
    /\ hoveredCell = [day |-> 0, hour |-> 9, count |-> 5]
    /\ view.tooltip # Null
    /\ view.tooltip.count = 5

====
